---- MODULE Spec2Model ----
(***************************************************************************)
(* Model of the command-line portfolio tracker of src/main.py: the Stock   *)
(* analytics (price, daily change, 5-bar SMA buy signals), the Portfolio   *)
(* ledger (add, remove, CSV save and load, watchlist chart, total value)   *)
(* and the interactive command loop of main().                             *)
(*                                                                         *)
(* Strings are sequences of one-character strings, so that upper(),        *)
(* strip(), int(), str() and the CSV quoting are computed, not assumed.    *)
(* Prices are integers (cents); a quotient is kept as the pair n/d.        *)
(***************************************************************************)
EXTENDS Integers, Sequences, FiniteSets, TLC

\* ------------------------------------------------------------------ bounds

\* Longest bar series the analytics are checked on (the window is 5).
MaxBars == 6
\* Closes are drawn from 0..MaxClose.
MaxClose == 2

\* ---------------------------------------------------------- python strings

\* str.upper() on one character.
UpperChar(c) ==
  CASE c = "a" -> "A"
    [] c = "b" -> "B"
    [] OTHER -> c

\* str.upper().
Upper(s) == [i \in 1..Len(s) |-> UpperChar(s[i])]

IsSpace(c) == c = " "

RECURSIVE LStrip(_)
LStrip(s) ==
  IF s # <<>> /\ IsSpace(Head(s)) THEN LStrip(Tail(s)) ELSE s

RECURSIVE RStrip(_)
RStrip(s) ==
  IF s # <<>> /\ IsSpace(s[Len(s)]) THEN RStrip(SubSeq(s, 1, Len(s) - 1)) ELSE s

\* str.strip().
Strip(s) == RStrip(LStrip(s))

\* str.lower() of the command word, as far as the command words go.
LowerCmd(w) ==
  CASE w = "ADD" -> "add"
    [] w = "Remove" -> "remove"
    [] w = "VIEW" -> "view"
    [] w = "History" -> "history"
    [] w = "CHART" -> "chart"
    [] w = "EXIT" -> "exit"
    [] w = "E" -> "e"
    [] w = "Q" -> "q"
    [] OTHER -> w

DigitChars == {"0", "1", "2", "3", "4", "5", "6", "7", "8", "9"}

DigitVal(c) ==
  CASE c = "0" -> 0 [] c = "1" -> 1 [] c = "2" -> 2 [] c = "3" -> 3
    [] c = "4" -> 4 [] c = "5" -> 5 [] c = "6" -> 6 [] c = "7" -> 7
    [] c = "8" -> 8 [] c = "9" -> 9

DigitChar(n) ==
  CASE n = 0 -> "0" [] n = 1 -> "1" [] n = 2 -> "2" [] n = 3 -> "3"
    [] n = 4 -> "4" [] n = 5 -> "5" [] n = 6 -> "6" [] n = 7 -> "7"
    [] n = 8 -> "8" [] n = 9 -> "9"

RECURSIVE DigitsValue(_, _)
DigitsValue(s, acc) ==
  IF s = <<>> THEN acc ELSE DigitsValue(Tail(s), 10 * acc + DigitVal(Head(s)))

AllDigits(s) == s # <<>> /\ \A i \in 1..Len(s) : s[i] \in DigitChars

\* ParseInt with a fault seeded: the sign is read over.
ParseIntNoSign(field) ==
  LET t == Strip(field.s)
  IN  IF ~field.some THEN [ok |-> FALSE, v |-> 0]
      ELSE IF AllDigits(t) THEN [ok |-> TRUE, v |-> DigitsValue(t, 0)]
      ELSE IF t # <<>> /\ Head(t) = "-" /\ AllDigits(Tail(t))
        THEN [ok |-> TRUE, v |-> DigitsValue(Tail(t), 0)]
      ELSE [ok |-> FALSE, v |-> 0]

\* int(text): surrounding whitespace is dropped, one sign is allowed, the rest
\* must be decimal digits; anything else (None, for a missing CSV field,
\* included) raises.
ParseInt(field) ==
  LET t == Strip(field.s)
  IN  IF ~field.some THEN [ok |-> FALSE, v |-> 0]
      ELSE IF AllDigits(t) THEN [ok |-> TRUE, v |-> DigitsValue(t, 0)]
      ELSE IF t # <<>> /\ Head(t) \in {"-", "+"} /\ AllDigits(Tail(t))
        THEN [ok |-> TRUE,
              v |-> IF Head(t) = "-" THEN 0 - DigitsValue(Tail(t), 0)
                    ELSE DigitsValue(Tail(t), 0)]
      ELSE [ok |-> FALSE, v |-> 0]

RECURSIVE NatDigits(_)
NatDigits(n) ==
  IF n < 10 THEN <<DigitChar(n)>>
  ELSE Append(NatDigits(n \div 10), DigitChar(n % 10))

\* str(n) of an int.
FormatInt(n) == IF n < 0 THEN <<"-">> \o NatDigits(0 - n) ELSE NatDigits(n)

\* ------------------------------------------------------------- csv module

\* csv.writer with QUOTE_MINIMAL: a field holding the delimiter or the quote
\* character is wrapped in quotes, every quote character in it doubled.
NeedsQuote(s) == \E i \in 1..Len(s) : s[i] \in {",", "\""}

RECURSIVE DoubleQuotes(_)
DoubleQuotes(s) ==
  IF s = <<>> THEN <<>>
  ELSE IF Head(s) = "\"" THEN <<"\"", "\"">> \o DoubleQuotes(Tail(s))
  ELSE <<Head(s)>> \o DoubleQuotes(Tail(s))

QuoteField(s) ==
  IF NeedsQuote(s) THEN <<"\"">> \o DoubleQuotes(s) \o <<"\"">> ELSE s

\* csv.reader on one line (default dialect, not strict): the fields of the
\* line. st is the reader's state, cur the field being collected.
RECURSIVE ParseFrom(_, _, _, _)
ParseFrom(rest, st, cur, fields) ==
  IF rest = <<>> THEN
    IF st = "START_RECORD" THEN <<>> ELSE Append(fields, cur)
  ELSE
    LET c == Head(rest)
        r == Tail(rest)
    IN  CASE st \in {"START_RECORD", "START_FIELD"} ->
               IF c = "\"" THEN ParseFrom(r, "IN_QUOTED_FIELD", <<>>, fields)
               ELSE IF c = "," THEN ParseFrom(r, "START_FIELD", <<>>, Append(fields, <<>>))
               ELSE ParseFrom(r, "IN_FIELD", <<c>>, fields)
          [] st = "IN_FIELD" ->
               IF c = "," THEN ParseFrom(r, "START_FIELD", <<>>, Append(fields, cur))
               ELSE ParseFrom(r, "IN_FIELD", Append(cur, c), fields)
          [] st = "IN_QUOTED_FIELD" ->
               IF c = "\"" THEN ParseFrom(r, "QUOTE_IN_QUOTED_FIELD", cur, fields)
               ELSE ParseFrom(r, "IN_QUOTED_FIELD", Append(cur, c), fields)
          [] st = "QUOTE_IN_QUOTED_FIELD" ->
               IF c = "\"" THEN ParseFrom(r, "IN_QUOTED_FIELD", Append(cur, c), fields)
               ELSE IF c = "," THEN ParseFrom(r, "START_FIELD", <<>>, Append(fields, cur))
               ELSE ParseFrom(r, "IN_FIELD", Append(cur, c), fields)

ParseLine(line) == ParseFrom(line, "START_RECORD", <<>>, <<>>)

\* A value that may be None: a string field of a csv row.
NoField == [some |-> FALSE, s |-> <<>>]
SomeField(s) == [some |-> TRUE, s |-> s]

\* csv.DictReader's row[name]: the field under the (last) column named
\* name, None when the row is shorter than the header (restval), and a
\* KeyError when the header has no such column.
RowGet(header, fields, name) ==
  LET cols == {i \in 1..Len(header) : header[i] = name}
      col == CHOOSE i \in cols : \A j \in cols : j <= i
  IN  IF cols = {} THEN [ok |-> FALSE, field |-> NoField]
      ELSE IF col > Len(fields) THEN [ok |-> TRUE, field |-> NoField]
      ELSE [ok |-> TRUE, field |-> SomeField(fields[col])]

\* ------------------------------------------------------------ python values

\* A number n/d (d > 0), or what stands where a number would: None, the
\* float results inf, -inf and nan, or a raised TypeError.
Num(n, d) == [tag |-> "num", n |-> n, d |-> d]
Special(tag) == [tag |-> tag, n |-> 0, d |-> 1]
None == Special("None")
NaN == Special("nan")

\* a > b on floats: False whenever either side is nan.
Gt(a, b) == a.tag = "num" /\ b.tag = "num" /\ a.n * b.d > b.n * a.d

Ge(a, b) == a.tag = "num" /\ b.tag = "num" /\ a.n * b.d >= b.n * a.d

\* a * b of two values: None as an operand raises TypeError.
Mul(a, b) ==
  IF a.tag = "num" /\ b.tag = "num" THEN Num(a.n * b.n, a.d * b.d)
  ELSE Special("TypeError")

\* a + b inside sum(): an operand that raised has already ended the sum.
Add(a, b) ==
  IF a.tag = "num" /\ b.tag = "num" THEN Num(a.n * b.d + b.n * a.d, a.d * b.d)
  ELSE Special("TypeError")

\* a / b on numpy floats: a zero divisor gives inf, -inf or nan and raises
\* nothing.
Div(a, b) ==
  IF b.n # 0 THEN
    IF b.n > 0 THEN Num(a.n * b.d, a.d * b.n) ELSE Num(0 - a.n * b.d, 0 - a.d * b.n)
  ELSE IF a.n > 0 THEN Special("inf")
  ELSE IF a.n < 0 THEN Special("-inf")
  ELSE NaN

\* ------------------------------------------------------------------- Stock

\* The cached DataFrame of a Stock: None, or the Close column of its bars.
NoData == [some |-> FALSE, closes |-> <<>>]
Frame(closes) == [some |-> TRUE, closes |-> closes]

\* What one call of yf.Ticker.history does: raise, return no frame, or
\* return a frame (possibly empty).
FetchRaises == [kind |-> "raise", closes |-> <<>>]
FetchNone == [kind |-> "none", closes |-> <<>>]
FetchFrame(closes) == [kind |-> "frame", closes |-> closes]

QNone == [set |-> FALSE, v |-> 0]
QInt(v) == [set |-> TRUE, v |-> v]

\* Stock.__init__
NewStock(ticker) == [symbol |-> Upper(ticker), quantity |-> QNone, data |-> NoData]

\* Stock.get_data: [self |-> the stock afterwards, ret |-> the data returned,
\* calls |-> the fetches made, with what each did]. f is what the fetch does
\* if one is made.
GetData(stock, refresh, f) ==
  IF ~stock.data.some \/ refresh THEN
    IF f.kind = "raise" THEN [self |-> stock, ret |-> NoData, calls |-> <<f>>]
    ELSE LET d == IF f.kind = "none" THEN NoData ELSE Frame(f.closes)
         IN  [self |-> [stock EXCEPT !.data = d], ret |-> d, calls |-> <<f>>]
  ELSE [self |-> stock, ret |-> stock.data, calls |-> <<>>]

\* Stock.get_price
GetPrice(stock, f) ==
  LET g == GetData(stock, FALSE, f)
      data == g.ret
  IN  IF ~data.some \/ data.closes = <<>>
        THEN [self |-> g.self, ret |-> None, calls |-> g.calls]
      ELSE [self |-> g.self, ret |-> Num(data.closes[Len(data.closes)], 1),
            calls |-> g.calls]

QuantityVal(q) == IF q.set THEN Num(q.v, 1) ELSE None

\* Stock.get_value
GetValue(stock, f) ==
  LET p == GetPrice(stock, f)
  IN  [self |-> p.self, ret |-> Mul(p.ret, QuantityVal(stock.quantity)),
       calls |-> p.calls]

\* Stock.get_daily_change_percent
GetDailyChangePercent(stock, f) ==
  LET g == GetData(stock, FALSE, f)
      data == g.ret
      n == Len(data.closes)
  IN  IF ~data.some \/ n < 2 THEN [self |-> g.self, ret |-> None, calls |-> g.calls]
      ELSE
        LET yesterday_close == Num(data.closes[n - 1], 1)
            today_close == Num(data.closes[n], 1)
            q == Div(Num(today_close.n - yesterday_close.n, 1), yesterday_close)
        IN  [self |-> g.self,
             ret |-> IF q.tag = "num" THEN Mul(q, Num(100, 1)) ELSE q,
             calls |-> g.calls]

\* rolling(window=5)
Window == 5

\* Series.rolling(window).mean(): pandas slides a running sum over the
\* closes, adding the bar that enters and removing the bar that leaves, and
\* emits nan until window observations are in.
RECURSIVE RollSum(_, _)
RollSum(closes, i) ==
  IF i = 0 THEN 0
  ELSE RollSum(closes, i - 1) + closes[i]
       - (IF i > Window THEN closes[i - Window] ELSE 0)

RollingMean(closes) ==
  [i \in 1..Len(closes) |->
     IF i >= Window THEN Num(RollSum(closes, i), Window) ELSE NaN]

\* BuySignals with a fault seeded: >= for >.
BuySignalsGe(closes) ==
  LET sma_5 == RollingMean(closes)
  IN  [i \in 1..Len(closes) |-> Ge(Num(closes[i], 1), sma_5[i])]

\* data['Close'] > sma_5
BuySignals(closes) ==
  LET sma_5 == RollingMean(closes)
  IN  [i \in 1..Len(closes) |-> Gt(Num(closes[i], 1), sma_5[i])]

\* Stock.plot_history: nothing is drawn without data; otherwise the chart of
\* the closes with the buy signals marked is saved.
PlotHistory(stock, f) ==
  LET g == GetData(stock, FALSE, f)
  IN  IF ~g.ret.some
        THEN [self |-> g.self, drawn |-> FALSE, signals |-> <<>>, calls |-> g.calls]
      ELSE [self |-> g.self, drawn |-> TRUE, signals |-> BuySignals(g.ret.closes),
            calls |-> g.calls]

\* --------------------------------------------------------------- Portfolio

\* self.stocks is a dict, modelled in insertion order: a sequence of
\* [key, stock] entries with distinct keys.
Keys(stocks) == {stocks[i].key : i \in 1..Len(stocks)}

\* ticker in self.stocks
HasKey(stocks, k) == k \in Keys(stocks)

IndexOf(stocks, k) == CHOOSE i \in 1..Len(stocks) : stocks[i].key = k

\* self.stocks[k] = stock: an existing key keeps its place.
DictSet(stocks, k, stock) ==
  IF HasKey(stocks, k)
    THEN [stocks EXCEPT ![IndexOf(stocks, k)] = [key |-> k, stock |-> stock]]
  ELSE Append(stocks, [key |-> k, stock |-> stock])

\* self.stocks.pop(k)
DictPop(stocks, k) ==
  LET i == IndexOf(stocks, k)
  IN  SubSeq(stocks, 1, i - 1) \o SubSeq(stocks, i + 1, Len(stocks))

\* output/portfolio.csv: absent, or a header row and the data lines.
NoFile == [exists |-> FALSE, header |-> <<>>, lines |-> <<>>]
CsvFile(header, lines) == [exists |-> TRUE, header |-> header, lines |-> lines]

\* The loop of Portfolio.__init__ over the rows of the reader: [stocks, ok],
\* ok FALSE when a row raised (the rows before it stay loaded).
RECURSIVE LoadRows(_, _, _)
LoadRows(header, lines, acc) ==
  IF lines = <<>> THEN [stocks |-> acc, ok |-> TRUE]
  ELSE
    LET fields == ParseLine(Head(lines))
        tk == RowGet(header, fields, "Ticker")
        qf == RowGet(header, fields, "Quantity")
        qty == ParseInt(qf.field)
    IN  IF fields = <<>> THEN LoadRows(header, Tail(lines), acc)
        ELSE IF ~tk.ok \/ ~qf.ok \/ ~qty.ok \/ ~tk.field.some
          THEN [stocks |-> acc, ok |-> FALSE]
        ELSE
          LET ticker == tk.field.s
              stock == [NewStock(ticker) EXCEPT !.quantity = QInt(qty.v)]
          IN  LoadRows(header, Tail(lines), DictSet(acc, ticker, stock))

\* Portfolio.__init__
PortfolioInit(f) ==
  IF ~f.exists THEN [stocks |-> <<>>, out |-> <<>>]
  ELSE
    LET l == LoadRows(f.header, f.lines, <<>>)
    IN  [stocks |-> l.stocks,
         out |-> IF l.ok THEN <<"Loaded">> ELSE <<"ErrorLoading">>]

\* AddStock with a fault seeded: no check for a key already held.
AddStockNoDup(stocks, ticker, quantity, f) ==
  LET p == GetPrice(NewStock(ticker), f)
  IN  IF p.ret.tag = "None"
        THEN [stocks |-> stocks, out |-> <<"Validating", "InvalidTicker">>,
              calls |-> p.calls]
      ELSE [stocks |-> DictSet(stocks, ticker, [p.self EXCEPT !.quantity = quantity]),
            out |-> <<"Validating", "Added">>, calls |-> p.calls]

\* AddStock with a fault seeded: the stock is stored whatever its price.
AddStockNoGate(stocks, ticker, quantity, f) ==
  IF HasKey(stocks, ticker)
    THEN [stocks |-> stocks, out |-> <<"AlreadyInPortfolio">>, calls |-> <<>>]
  ELSE
    LET p == GetPrice(NewStock(ticker), f)
    IN  [stocks |-> DictSet(stocks, ticker, [p.self EXCEPT !.quantity = quantity]),
         out |-> IF p.ret.tag = "None" THEN <<"Validating", "InvalidTicker">>
                 ELSE <<"Validating", "Added">>,
         calls |-> p.calls]

\* Portfolio.add_stock
AddStock(stocks, ticker, quantity, f) ==
  IF HasKey(stocks, ticker)
    THEN [stocks |-> stocks, out |-> <<"AlreadyInPortfolio">>, calls |-> <<>>]
  ELSE
    LET p == GetPrice(NewStock(ticker), f)
    IN  IF p.ret.tag = "None"
          THEN [stocks |-> stocks, out |-> <<"Validating", "InvalidTicker">>,
                calls |-> p.calls]
        ELSE [stocks |-> DictSet(stocks, ticker, [p.self EXCEPT !.quantity = quantity]),
              out |-> <<"Validating", "Added">>, calls |-> p.calls]

\* Portfolio.remove_stock
RemoveStock(stocks, ticker) ==
  IF HasKey(stocks, ticker)
    THEN [stocks |-> DictPop(stocks, ticker), out |-> <<"Removed">>]
  ELSE [stocks |-> stocks, out |-> <<"NotInPortfolio">>]

\* What csv.writer writes for a quantity: str() of it, nothing for None.
QuantityText(q) == IF q.set THEN FormatInt(q.v) ELSE <<>>

\* One row of Portfolio.save_to_csv.
WriteRow(e) ==
  QuoteField(e.key) \o <<",">> \o QuoteField(QuantityText(e.stock.quantity))

\* Portfolio.save_to_csv: the file written.
SaveToCsv(stocks) ==
  CsvFile(<<"Ticker", "Quantity">>, [i \in 1..Len(stocks) |-> WriteRow(stocks[i])])

\* sorted(valid_stocks, key=price, reverse=True): a stable sort, so bars of
\* equal price keep their order. One insertion step: x goes after every bar
\* priced at least as high.
InsertDesc(sorted, x) ==
  LET k == Cardinality({i \in 1..Len(sorted) : Ge(sorted[i].price, x.price)})
  IN  SubSeq(sorted, 1, k) \o <<x>> \o SubSeq(sorted, k + 1, Len(sorted))

RECURSIVE SortDesc(_)
SortDesc(bars) ==
  IF bars = <<>> THEN <<>>
  ELSE InsertDesc(SortDesc(SubSeq(bars, 1, Len(bars) - 1)), bars[Len(bars)])

\* sorted_stocks[:5]
TopN == 5

Take(seq, n) == SubSeq(seq, 1, IF Len(seq) < n THEN Len(seq) ELSE n)

\* The loop of generate_chart over the holdings from the i-th on: every
\* holding's price is asked for (fs[i] is what a fetch for it does), the
\* priced ones are collected.
RECURSIVE CollectPrices(_, _, _, _, _)
CollectPrices(stocks, fs, i, valid, calls) ==
  IF i > Len(stocks) THEN [stocks |-> stocks, valid |-> valid, calls |-> calls]
  ELSE
    LET p == GetPrice(stocks[i].stock, fs[i])
        next == [stocks EXCEPT ![i].stock = p.self]
    IN  CollectPrices(next, fs, i + 1,
          IF p.ret.tag = "None" THEN valid
          ELSE Append(valid, [ticker |-> stocks[i].key, price |-> p.ret]),
          calls \o p.calls)

\* GenerateChart with a fault seeded: nothing is saved when no holding has
\* a price.
GenerateChartSkipsEmpty(stocks, fs) ==
  LET c == CollectPrices(stocks, fs, 1, <<>>, <<>>)
  IN  IF c.valid = <<>>
        THEN [stocks |-> c.stocks, out |-> <<"NoStocksForChart">>, bars |-> <<>>,
              calls |-> c.calls]
      ELSE [stocks |-> c.stocks, out |-> <<"SavedBarChart">>,
            bars |-> Take(SortDesc(c.valid), TopN), calls |-> c.calls]

\* Portfolio.generate_chart: with no holdings it only says so; otherwise the
\* five highest-priced holdings are drawn and output/chart.png is saved.
GenerateChart(stocks, fs) ==
  IF stocks = <<>>
    THEN [stocks |-> stocks, out |-> <<"NoStocksForChart">>, bars |-> <<>>,
          calls |-> <<>>]
  ELSE
    LET c == CollectPrices(stocks, fs, 1, <<>>, <<>>)
    IN  [stocks |-> c.stocks, out |-> <<"SavedBarChart">>,
         bars |-> Take(SortDesc(c.valid), TopN), calls |-> c.calls]

\* sum(stock.get_value() for stock in ...): the values are added from 0 in
\* order; the first get_value that raises ends the sum with its error, and
\* the holdings after it are not asked.
RECURSIVE SumValues(_, _, _, _, _)
SumValues(stocks, fs, i, total, calls) ==
  IF i > Len(stocks) THEN [stocks |-> stocks, ret |-> total, calls |-> calls]
  ELSE
    LET v == GetValue(stocks[i].stock, fs[i])
        next == [stocks EXCEPT ![i].stock = v.self]
    IN  IF v.ret.tag # "num"
          THEN [stocks |-> next, ret |-> v.ret, calls |-> calls \o v.calls]
        ELSE SumValues(next, fs, i + 1, Add(total, v.ret), calls \o v.calls)

\* Portfolio.get_total_value
GetTotalValue(stocks, fs) == SumValues(stocks, fs, 1, Num(0, 1), <<>>)

\* One row of Portfolio.__str__: the price and the daily change are asked
\* for in turn (f1, f2: what a fetch does, if the first left no data a
\* second one is made); a holding without price or quantity gets the error
\* line.
TableRow(e, f1, f2) ==
  LET p == GetPrice(e.stock, f1)
      c == GetDailyChangePercent(p.self, f2)
      qty == QuantityVal(e.stock.quantity)
      good == p.ret.tag # "None" /\ qty.tag # "None"
  IN  [self |-> c.self,
       row |-> [ticker |-> e.key, error |-> ~good, price |-> p.ret,
                change |-> IF good THEN c.ret ELSE None,
                qty |-> qty,
                value |-> IF good THEN Mul(p.ret, qty) ELSE None],
       calls |-> p.calls \o c.calls]

RECURSIVE TableRows(_, _, _, _, _, _)
TableRows(stocks, fs1, fs2, i, rows, calls) ==
  IF i > Len(stocks) THEN [stocks |-> stocks, rows |-> rows, calls |-> calls]
  ELSE
    LET r == TableRow(stocks[i], fs1[i], fs2[i])
    IN  TableRows([stocks EXCEPT ![i].stock = r.self], fs1, fs2, i + 1,
                  Append(rows, r.row), calls \o r.calls)

\* Portfolio.__str__
ToStr(stocks, fs1, fs2) == TableRows(stocks, fs1, fs2, 1, <<>>, <<>>)

\* ------------------------------------------------------------------- state

VARIABLES
  pc,       \* main(): "prompt" at the command prompt, "done" after exit,
            \* "crashed" when an exception left main(); "api" when the
            \* classes are driven directly
  stocks,   \* Portfolio.stocks
  file,     \* output/portfolio.csv
  call,     \* the last operation and its arguments
  fetches,  \* the Quote Source calls the last operation made, with outcomes
  out,      \* what the last operation printed and saved, in order
  ret       \* what the last operation returned or drew

vars == <<pc, stocks, file, call, fetches, out, ret>>

Call(op, ticker, quantity) == [op |-> op, ticker |-> ticker, quantity |-> quantity]

NoRet == [val |-> None, bars |-> <<>>, signals |-> <<>>, rows |-> <<>>]
RetVal(v) == [NoRet EXCEPT !.val = v]

\* ------------------------------------------------------------ input sets

\* What the Quote Source may do on a fetch.
FetchOutcomes ==
  {FetchRaises, FetchNone, FetchFrame(<<>>), FetchFrame(<<1>>), FetchFrame(<<0, 2>>)}

\* The outcomes that matter for a stock: one that holds data fetches nothing.
FetchChoices(stock) == IF stock.data.some THEN {FetchRaises} ELSE FetchOutcomes

FetchesFor(ss) ==
  {fs \in [1..Len(ss) -> FetchOutcomes] :
     \A i \in 1..Len(ss) : fs[i] \in FetchChoices(ss[i].stock)}

\* The second fetches of a table row: made only where the first left no data.
SecondFetchesFor(ss, fs1) ==
  {fs \in [1..Len(ss) -> FetchOutcomes] :
     \A i \in 1..Len(ss) :
       fs[i] \in FetchChoices(GetPrice(ss[i].stock, fs1[i]).self)}

\* Words typed at the command prompt.
CommandWords ==
  {"add", "ADD", "remove", "Remove", "view", "VIEW", "history", "History",
   "chart", "CHART", "exit", "EXIT", "e", "E", "q", "Q", "", "buy"}

ValidChoices == {"add", "remove", "view", "history", "chart", "exit", "e", "q"}

\* Answers to the ticker prompts.
TickerAnswers == {<<"a">>, <<" ", "B", ",">>}

\* Answers to the quantity prompt.
QuantityAnswers == {<<"1", "2">>, <<" ", "-", "1">>, <<"x">>, <<>>}

\* Persisted files the program may start from: none, an empty ledger, a
\* ledger with an upper-case and one with a lower-case ticker, one whose
\* second row has no number, and one with a foreign header.
InitFiles ==
  {NoFile,
   CsvFile(<<"Ticker", "Quantity">>, <<>>),
   CsvFile(<<"Ticker", "Quantity">>, <<<<"A", ",", "3">>>>),
   CsvFile(<<"Ticker", "Quantity">>, <<<<"a", ",", "3">>, <<"A", ",", "0">>>>),
   CsvFile(<<"Ticker", "Quantity">>, <<<<"A", ",", "3">>, <<"a", ",", "x">>>>),
   CsvFile(<<"Symbol", "Qty">>, <<<<"A", ",", "3">>>>)}

\* ------------------------------------------------------------------ main()

\* main() up to the first prompt: the Portfolio is constructed.
Init ==
  \E f0 \in InitFiles :
    /\ file = f0
    /\ stocks = PortfolioInit(f0).stocks
    /\ out = PortfolioInit(f0).out
    /\ pc = "prompt"
    /\ call = Call("start", <<>>, QNone)
    /\ fetches = <<>>
    /\ ret = NoRet

\* A word outside the list of choices.
CmdInvalid ==
  /\ pc = "prompt"
  /\ \E w \in CommandWords : LowerCmd(w) \notin ValidChoices
  /\ call' = Call("invalid", <<>>, QNone)
  /\ out' = <<"InvalidChoice">>
  /\ fetches' = <<>>
  /\ ret' = NoRet
  /\ UNCHANGED <<pc, stocks, file>>

\* case "add": int() of the quantity answer raises on anything but a number,
\* and nothing in main() catches it.
CmdAdd ==
  /\ pc = "prompt"
  /\ \E w \in CommandWords : LowerCmd(w) = "add"
  /\ \E tin \in TickerAnswers, qin \in QuantityAnswers, f \in FetchOutcomes :
       LET user_input == Strip(Upper(tin))
           quantity == ParseInt(SomeField(qin))
           a == AddStock(stocks, user_input, QInt(quantity.v), f)
       IN  IF ~quantity.ok
             THEN /\ pc' = "crashed"
                  /\ call' = Call("add", user_input, QNone)
                  /\ out' = <<"ValueError">>
                  /\ fetches' = <<>>
                  /\ UNCHANGED stocks
           ELSE /\ pc' = pc
                /\ call' = Call("add", user_input, QInt(quantity.v))
                /\ stocks' = a.stocks
                /\ out' = a.out
                /\ fetches' = a.calls
  /\ ret' = NoRet
  /\ UNCHANGED file

\* case "remove"
CmdRemove ==
  /\ pc = "prompt"
  /\ \E w \in CommandWords : LowerCmd(w) = "remove"
  /\ \E tin \in TickerAnswers :
       LET user_input == Strip(Upper(tin))
           r == RemoveStock(stocks, user_input)
       IN  /\ call' = Call("remove", user_input, QNone)
           /\ stocks' = r.stocks
           /\ out' = r.out
  /\ fetches' = <<>>
  /\ ret' = NoRet
  /\ UNCHANGED <<pc, file>>

\* case "view"
CmdView ==
  /\ pc = "prompt"
  /\ \E w \in CommandWords : LowerCmd(w) = "view"
  /\ \E fs1 \in FetchesFor(stocks) :
       \E fs2 \in SecondFetchesFor(stocks, fs1) :
         LET t == ToStr(stocks, fs1, fs2)
         IN  /\ stocks' = t.stocks
             /\ fetches' = t.calls
             /\ ret' = [NoRet EXCEPT !.rows = t.rows]
  /\ call' = Call("view", <<>>, QNone)
  /\ out' = <<"Table">>
  /\ UNCHANGED <<pc, file>>

\* case "history": a holding of the portfolio is reused, any other ticker
\* gets a Stock of its own, which is dropped afterwards.
CmdHistory ==
  /\ pc = "prompt"
  /\ \E w \in CommandWords : LowerCmd(w) = "history"
  /\ \E tin \in TickerAnswers, f \in FetchOutcomes :
       LET user_input == Strip(Upper(tin))
           held == HasKey(stocks, user_input)
           stock == IF held THEN stocks[IndexOf(stocks, user_input)].stock
                    ELSE NewStock(user_input)
           h == PlotHistory(stock, f)
       IN  /\ f \in FetchChoices(stock)
           /\ call' = Call("history", user_input, QNone)
           /\ stocks' = IF held
                          THEN [stocks EXCEPT ![IndexOf(stocks, user_input)].stock = h.self]
                        ELSE stocks
           /\ fetches' = h.calls
           /\ out' = IF h.drawn THEN <<"SavedHistoryChart">> ELSE <<>>
           /\ ret' = [NoRet EXCEPT !.signals = h.signals]
  /\ UNCHANGED <<pc, file>>

\* case "chart"
CmdChart ==
  /\ pc = "prompt"
  /\ \E w \in CommandWords : LowerCmd(w) = "chart"
  /\ \E fs \in FetchesFor(stocks) :
       LET g == GenerateChart(stocks, fs)
       IN  /\ stocks' = g.stocks
           /\ fetches' = g.calls
           /\ out' = g.out
           /\ ret' = [NoRet EXCEPT !.bars = g.bars]
  /\ call' = Call("chart", <<>>, QNone)
  /\ UNCHANGED <<pc, file>>

\* case "exit" | "e" | "q": save, chart, break.
CmdExit ==
  /\ pc = "prompt"
  /\ \E w \in CommandWords : LowerCmd(w) \in {"exit", "e", "q"}
  /\ \E fs \in FetchesFor(stocks) :
       LET g == GenerateChart(stocks, fs)
       IN  /\ file' = SaveToCsv(stocks)
           /\ stocks' = g.stocks
           /\ fetches' = g.calls
           /\ out' = <<"ThankYou", "SavedPortfolio">> \o g.out
           /\ ret' = [NoRet EXCEPT !.bars = g.bars]
  /\ call' = Call("exit", <<>>, QNone)
  /\ pc' = "done"

Next ==
  \/ CmdInvalid
  \/ CmdAdd
  \/ CmdRemove
  \/ CmdView
  \/ CmdHistory
  \/ CmdChart
  \/ CmdExit

Spec == Init /\ [][Next]_vars

\* ------------------------------------------------- the Portfolio, directly

\* Tickers and quantities handed to add_stock and remove_stock.
TickerArgs == {<<"a">>, <<"B", ",", "\"">>}

QuantityArgs == {QInt(0 - 1), QInt(12)}

\* Portfolio() where no file has been saved yet.
LedgerInit ==
  /\ file = NoFile
  /\ stocks = PortfolioInit(NoFile).stocks
  /\ out = PortfolioInit(NoFile).out
  /\ pc = "api"
  /\ call = Call("start", <<>>, QNone)
  /\ fetches = <<>>
  /\ ret = NoRet

\* portfolio.add_stock(ticker, quantity)
ApiAdd ==
  /\ pc = "api"
  /\ \E ticker \in TickerArgs, quantity \in QuantityArgs, f \in FetchOutcomes :
       LET a == AddStock(stocks, ticker, quantity, f)
       IN  /\ call' = Call("add", ticker, quantity)
           /\ stocks' = a.stocks
           /\ out' = a.out
           /\ fetches' = a.calls
  /\ ret' = NoRet
  /\ UNCHANGED <<pc, file>>

\* portfolio.remove_stock(ticker)
ApiRemove ==
  /\ pc = "api"
  /\ \E ticker \in TickerArgs :
       LET r == RemoveStock(stocks, ticker)
       IN  /\ call' = Call("remove", ticker, QNone)
           /\ stocks' = r.stocks
           /\ out' = r.out
  /\ fetches' = <<>>
  /\ ret' = NoRet
  /\ UNCHANGED <<pc, file>>

\* portfolio.save_to_csv()
ApiSave ==
  /\ pc = "api"
  /\ file' = SaveToCsv(stocks)
  /\ call' = Call("save", <<>>, QNone)
  /\ out' = <<"SavedPortfolio">>
  /\ fetches' = <<>>
  /\ ret' = NoRet
  /\ UNCHANGED <<pc, stocks>>

\* portfolio = Portfolio(): a new ledger, read from the file.
ApiLoad ==
  /\ pc = "api"
  /\ stocks' = PortfolioInit(file).stocks
  /\ out' = PortfolioInit(file).out
  /\ call' = Call("load", <<>>, QNone)
  /\ fetches' = <<>>
  /\ ret' = NoRet
  /\ UNCHANGED <<pc, file>>

\* portfolio.get_total_value()
ApiTotalValue ==
  /\ pc = "api"
  /\ \E fs \in FetchesFor(stocks) :
       LET t == GetTotalValue(stocks, fs)
       IN  /\ stocks' = t.stocks
           /\ fetches' = t.calls
           /\ ret' = RetVal(t.ret)
  /\ call' = Call("total_value", <<>>, QNone)
  /\ out' = <<>>
  /\ UNCHANGED <<pc, file>>

LedgerNext ==
  \/ ApiAdd
  \/ ApiRemove
  \/ ApiSave
  \/ ApiLoad
  \/ ApiTotalValue

SpecLedger == LedgerInit /\ [][LedgerNext]_vars

\* ----------------------------------------------------- one Stock, directly

\* The bar series the analytics are run on: every series of at most MaxBars
\* closes out of 0..MaxClose, and the six closes 10, 11, 9, 12, 13, 14.
ExampleCloses == <<10, 11, 9, 12, 13, 14>>

SeriesInputs ==
  UNION {[1..n -> 0..MaxClose] : n \in 0..MaxBars} \cup {ExampleCloses}

\* A holding "A" of two shares (or a Stock without quantity), its data not
\* fetched yet or cached.
AnalyticsInit ==
  /\ \E q \in {QNone, QInt(2)}, d \in {NoData} \cup {Frame(c) : c \in SeriesInputs} :
       stocks = <<[key |-> <<"A">>,
                   stock |-> [symbol |-> <<"A">>, quantity |-> q, data |-> d]]>>
  /\ file = NoFile
  /\ out = <<>>
  /\ pc = "api"
  /\ call = Call("start", <<>>, QNone)
  /\ fetches = <<>>
  /\ ret = NoRet

\* A getter of the stock is called: g is its result on the stock.
StockCall(op, g, r) ==
  /\ stocks' = [stocks EXCEPT ![1].stock = g.self]
  /\ fetches' = g.calls
  /\ ret' = r
  /\ call' = Call(op, stocks[1].key, QNone)
  /\ out' = <<>>
  /\ UNCHANGED <<pc, file>>

\* stock.get_price()
CallGetPrice ==
  /\ pc = "api" /\ Len(stocks) = 1
  /\ \E f \in FetchChoices(stocks[1].stock) :
       LET g == GetPrice(stocks[1].stock, f)
       IN  StockCall("get_price", g, RetVal(g.ret))

\* stock.get_value()
CallGetValue ==
  /\ pc = "api" /\ Len(stocks) = 1
  /\ \E f \in FetchChoices(stocks[1].stock) :
       LET g == GetValue(stocks[1].stock, f)
       IN  StockCall("get_value", g, RetVal(g.ret))

\* stock.get_daily_change_percent()
CallDailyChange ==
  /\ pc = "api" /\ Len(stocks) = 1
  /\ \E f \in FetchChoices(stocks[1].stock) :
       LET g == GetDailyChangePercent(stocks[1].stock, f)
       IN  StockCall("get_daily_change_percent", g, RetVal(g.ret))

\* stock.plot_history()
CallPlotHistory ==
  /\ pc = "api" /\ Len(stocks) = 1
  /\ \E f \in FetchChoices(stocks[1].stock) :
       LET g == PlotHistory(stocks[1].stock, f)
       IN  /\ StockCall("plot_history", g, [NoRet EXCEPT !.signals = g.signals])
           /\ g.drawn

AnalyticsNext ==
  \/ CallGetPrice
  \/ CallGetValue
  \/ CallDailyChange
  \/ CallPlotHistory

SpecAnalytics == AnalyticsInit /\ [][AnalyticsNext]_vars

\* ------------------------------------------------------------------ claims

\* The (symbol, quantity) pairs of a ledger.
Pairs(ss) == {<<ss[i].key, ss[i].stock.quantity>> : i \in 1..Len(ss)}

\* A fetch that yields no price: it raised, returned no series, or returned
\* an empty one.
Unavailable(f) == f.kind \in {"raise", "none"} \/ f.closes = <<>>

\* A holding whose quote is there.
Priced(stock) == stock.data.some /\ stock.data.closes # <<>>

LastClose(stock) == stock.data.closes[Len(stock.data.closes)]

RECURSIVE SumRange(_, _, _)
SumRange(closes, lo, hi) ==
  IF lo > hi THEN 0 ELSE closes[lo] + SumRange(closes, lo + 1, hi)

RECURSIVE SumHoldings(_, _)
SumHoldings(ss, i) ==
  IF i > Len(ss) THEN 0
  ELSE LastClose(ss[i].stock) * ss[i].stock.quantity.v + SumHoldings(ss, i + 1)

\* C1: an add whose validation fetch yields no price (it raised, returned no
\* series or an empty one) reports the invalid symbol and leaves the mapping
\* as it was, with no entry for the rejected symbol.
C1_AddUnavailableKeepsPortfolio ==
  [][(call'.op = "add" /\ fetches' # <<>> /\ Unavailable(fetches'[1]))
       => /\ stocks' = stocks
          /\ ~HasKey(stocks', call'.ticker)
          /\ out' = <<"Validating", "InvalidTicker">>]_vars

C1_Witness ==
  /\ call.op = "add"
  /\ fetches # <<>> /\ Unavailable(fetches[1])
  /\ Len(stocks) >= 1
  /\ out = <<"Validating", "InvalidTicker">>

\* C2: right after save_to_csv, loading the file into a new Portfolio gives
\* the (symbol, quantity) pairs of the saved one.
C2_SaveLoadRoundTrip ==
  call.op = "save" =>
    /\ file.exists
    /\ PortfolioInit(file).out = <<"Loaded">>
    /\ Pairs(PortfolioInit(file).stocks) = Pairs(stocks)

C2_Witness ==
  /\ call.op = "save"
  /\ Len(stocks) = 2
  /\ \E i \in 1..2 : NeedsQuote(stocks[i].key) /\ stocks[i].stock.quantity.v < 0
  /\ \E i \in 1..2 : stocks[i].stock.quantity.v > 9

\* C3: every key of the mapping equals the symbol of the Holding under it.
C3_KeyEqualsSymbol ==
  \A i \in 1..Len(stocks) : stocks[i].key = stocks[i].stock.symbol

\* C4: no input ends the process except the exit command: the loop is at its
\* prompt, or it has ended through exit, e or q.
C4_OnlyExitTerminates ==
  /\ pc \in {"prompt", "done"}
  /\ pc = "done" => call.op = "exit"

\* C5 as stated: once the loop has ended, the ledger was saved with the
\* pairs held, then the watchlist bar chart was regenerated.
C5_ExitSavesThenCharts ==
  pc = "done" =>
    /\ call.op = "exit"
    /\ Pairs(PortfolioInit(file).stocks) = Pairs(stocks)
    /\ out = <<"ThankYou", "SavedPortfolio", "SavedBarChart">>

\* C5 amended: once the loop has ended, it ended through exit, the ledger
\* was saved with the pairs held, and after the save generate_chart ran:
\* it saved the bar chart of the (at most five) highest-priced holdings when
\* the portfolio holds anything, and only said so when it holds nothing.
C5_ExitSavesThenRunsChart ==
  pc = "done" =>
    /\ call.op = "exit"
    /\ file.exists
    /\ Pairs(PortfolioInit(file).stocks) = Pairs(stocks)
    /\ Len(out) = 3 /\ out[2] = "SavedPortfolio"
    /\ stocks # <<>> =>
         /\ out[3] = "SavedBarChart"
         /\ {ret.bars[i].ticker : i \in 1..Len(ret.bars)}
              \subseteq {stocks[i].key : i \in {j \in 1..Len(stocks) : Priced(stocks[j].stock)}}
         /\ Len(ret.bars) <= TopN
         /\ \A i \in 1..Len(ret.bars) - 1 : Ge(ret.bars[i].price, ret.bars[i + 1].price)
    /\ stocks = <<>> => out[3] = "NoStocksForChart" /\ ret.bars = <<>>

C5_Witness ==
  /\ pc = "done"
  /\ Len(stocks) >= 2
  /\ Len(ret.bars) >= 2
  /\ out = <<"ThankYou", "SavedPortfolio", "SavedBarChart">>

\* C6: total_value() returns the sum of price x quantity when every Holding
\* has a price, and absent (as a value, nothing raised) when one has none.
C6_TotalValueAbsentNotRaised ==
  call.op = "total_value" =>
    ret.val = IF \A i \in 1..Len(stocks) : Priced(stocks[i].stock)
                THEN Num(SumHoldings(stocks, 1), 1)
              ELSE None

\* C7: on a non-empty series the buy-signal mask of the history chart is
\* true at bar i (counted from 1) exactly when i >= 5 and close[i] is
\* strictly above the mean of the five closes ending at i.
C7_BuySignalMask ==
  (call.op = "plot_history" /\ stocks[1].stock.data.closes # <<>>) =>
    LET closes == stocks[1].stock.data.closes
    IN  /\ Len(ret.signals) = Len(closes)
        /\ \A i \in 1..Len(closes) :
             ret.signals[i] <=>
               (i >= 5 /\ 5 * closes[i] > SumRange(closes, i - 4, i))

C7_Witness ==
  /\ call.op = "plot_history"
  /\ stocks[1].stock.data.closes = <<10, 11, 9, 12, 13, 14>>
  /\ ret.signals = <<FALSE, FALSE, FALSE, FALSE, TRUE, TRUE>>

\* C8: daily_change_percent is absent for a series that is missing, has
\* fewer than 2 bars, or whose second-to-last close is zero; otherwise it is
\* (close[-1] - close[-2]) / close[-2] * 100.
C8_DailyChangeAbsentOnZero ==
  call.op = "get_daily_change_percent" =>
    LET data == stocks[1].stock.data
        n == Len(data.closes)
    IN  IF ~data.some \/ n < 2 THEN ret.val = None
        ELSE IF data.closes[n - 1] = 0 THEN ret.val = None
        ELSE /\ ret.val.tag = "num"
             /\ ret.val.n * data.closes[n - 1]
                  = (data.closes[n] - data.closes[n - 1]) * 100 * ret.val.d

\* C9: an add of a symbol the mapping already holds says so and changes
\* nothing: the holding keeps its quantity and cached series, no other entry
\* changes, no fetch is made; the keys stay distinct after every add.
C9_DuplicateAddChangesNothing ==
  [][/\ (call'.op = "add" /\ HasKey(stocks, call'.ticker))
          => /\ stocks' = stocks
             /\ out' = <<"AlreadyInPortfolio">>
             /\ fetches' = <<>>
     /\ call'.op = "add" => Cardinality(Keys(stocks')) = Len(stocks')]_vars

C9_Witness ==
  /\ call.op = "add"
  /\ out = <<"AlreadyInPortfolio">>
  /\ Len(stocks) = 2
  /\ stocks[IndexOf(stocks, call.ticker)].stock.quantity # call.quantity

\* C10: at every command boundary every Holding has its quantity set, to an
\* integer >= 0.
C10_QuantitySetAndNonNegative ==
  \A i \in 1..Len(stocks) :
    stocks[i].stock.quantity.set /\ stocks[i].stock.quantity.v >= 0

====
